---- MODULE Spec2Model ----
(***************************************************************************)
(* A model of the x86-64 code generator src/src/generator.c (VSL back end) *)
(* and of the machine that runs the assembly text it emits.                *)
(*                                                                         *)
(* The generator is a recursive traversal of an AST: every generate_*      *)
(* function of the source is one operator here, threading the context the  *)
(* source threads through pointers (stack_alignment, label_mangle_index,   *)
(* the returned flags) and the output stream (out).  The emitted lines are *)
(* then executed, one action per kind of instruction, by a machine with    *)
(* registers, a byte-addressed stack and a flags register.                 *)
(***************************************************************************)
EXTENDS Integers, Sequences, FiniteSets

(***************************************************************************)
(* Program constants                                                       *)
(***************************************************************************)
\* char *data == NULL, symbol_t * == NULL, bool * == NULL
NULL == "NULL"
\* static const char *PARAMETER_REGISTERS[6] (0-based in C, 1-based here)
PARAMETER_REGISTERS == <<"%rdi", "%rsi", "%rdx", "%rcx", "%r8", "%r9">>

MIN(a, b) == IF a < b THEN a ELSE b
MAX(a, b) == IF a > b THEN a ELSE b

(***************************************************************************)
(* Operands and lines of the emitted text.  An operand stands for the      *)
(* string the source formats: "%rax", "$8", "$.intout", "-16(%rbp)",       *)
(* "8(%rsp)", ".name".                                                     *)
(***************************************************************************)
Reg(r) == <<"reg", r>>
Imm(n) == <<"imm", n>>
Sym(s) == <<"sym", s>>
Mem(base, off) == <<"mem", base, off>>
Glob(name) == <<"glob", name>>
NoOp == <<"none">>
NoNode == [type |-> "NONE"]

(***************************************************************************)
(* Symbols and AST nodes (symbol_t, node_t of the front end).  node.data   *)
(* is tagged by what the node kind keeps there: an operator string, an     *)
(* int64, a string-table index, or nothing (the null pointer).             *)
(***************************************************************************)
Symbol(type, name, seq, nparms, nlocals, node) ==
    [type |-> type, name |-> name, seq |-> seq, nparms |-> nparms,
     nlocals |-> nlocals, node |-> node]
NoSym == Symbol("NONE", <<>>, 0, 0, 0, NoNode)

Node(type, data, entry, children) ==
    [type |-> type, data |-> data, entry |-> entry, children |-> children]
NoData == <<"null">>
\* char *op = node->data: the operator string, NULL when there is none
OpOf(node) == IF node.data[1] = "op" THEN node.data[2] ELSE NULL

\* One emitted line: mnemonic, source operand, destination operand, and the
\* AST node the line was emitted for (kept for call and operator lines).
Ins(op, a, b) == [op |-> op, a |-> a, b |-> b, node |-> NoNode]
InsFor(op, a, b, node) == [op |-> op, a |-> a, b |-> b, node |-> node]

(***************************************************************************)
(* The generation context: the output stream and the objects the           *)
(* compilation_target_t pointers point to.  flags[1] is generate_function's*)
(* `returned`; every if/while appends its own `local_return`.  hist[i] is  *)
(* the value of stack_alignment when the step that emitted line i ended.   *)
(***************************************************************************)
emit(ctx, line, newA) ==
    [ctx EXCEPT !.out = Append(@, line),
                !.hist = Append(@, newA),
                !.stack_alignment = newA]

puts(ctx, line) == emit(ctx, line, ctx.stack_alignment)

Target(node, function, returned, dest, loop) ==
    [node |-> node, function |-> function, returned |-> returned,
     target_destination |-> dest, surrounding_loop_label |-> loop]

(***************************************************************************)
(* Frame / alignment primitives                                            *)
(***************************************************************************)
allocate_aligned_stack(slots, ctx) ==
    LET a1 == ctx.stack_alignment + slots * 8
        offset == IF a1 % 16 # 0 THEN 16 - (a1 % 16) ELSE 0
        a2 == a1 + offset
    IN IF offset = 0 /\ slots = 0
       THEN [ctx |-> ctx, ret |-> 0]
       ELSE [ctx |-> emit(ctx, Ins("subq", Imm(slots * 8 + offset), Reg("%rsp")), a2),
             ret |-> offset]

allocate_stack(slots, ctx) ==
    IF slots = 0
    THEN ctx
    ELSE emit(ctx, Ins("subq", Imm(slots * 8), Reg("%rsp")),
              ctx.stack_alignment + slots * 8)

align_stack(ctx) ==
    IF ctx.stack_alignment % 16 = 0
    THEN [ctx |-> ctx, ret |-> 0]
    ELSE LET offset == 16 - (ctx.stack_alignment % 16)
         IN [ctx |-> emit(ctx, Ins("subq", Imm(offset), Reg("%rsp")),
                          ctx.stack_alignment + offset),
             ret |-> offset]

unalign_stack(alignment, ctx) ==
    IF alignment # 0
    THEN emit(ctx, Ins("addq", Imm(alignment), Reg("%rsp")),
              ctx.stack_alignment - alignment)
    ELSE ctx

(***************************************************************************)
(* Labels                                                                  *)
(***************************************************************************)
\* snprintf(buf, maxlen, "._%s_%s%u", function->name, prefix, index)
make_label(prefix, target, ctx) ==
    <<"lbl", target.function.name, prefix, ctx.label_mangle_index>>

label_here(ctx, buf) == puts(ctx, Ins("label", buf, NoOp))

(***************************************************************************)
(* Address resolver                                                        *)
(***************************************************************************)
SlotOffset(slot) == (slot + 1) * (-8)

move_reg_to_slot(ctx, reg, slot) ==
    puts(ctx, Ins("movq", reg, Mem("%rbp", SlotOffset(slot))))

move_slot_to_reg(ctx, reg, slot) ==
    puts(ctx, Ins("movq", Mem("%rbp", SlotOffset(slot)), reg))

move_reg_to_global(ctx, reg, global) == puts(ctx, Ins("movq", reg, Glob(global)))

move_global_to_reg(ctx, reg, global) == puts(ctx, Ins("movq", Glob(global), reg))

\* tlhash_size(function->locals) - function->nparms
get_variable_count(function) == function.nlocals - function.nparms

\* Slots handed out in declaration order, parameter s in slot s: not the
\* order in which the prologue stores the parameter registers
get_slot_by_seq(function, sym) ==
    IF sym.type = "SYM_PARAMETER" THEN sym.seq ELSE sym.seq + MIN(6, function.nparms)

\* MIN(5, nparms - 1) is taken in size_t: for nparms = 0 the right side wraps
\* to SIZE_MAX and the minimum is 5.
get_slot(function, sym) ==
    IF sym.type = "SYM_PARAMETER"
    THEN (IF function.nparms = 0 THEN 5 ELSE MIN(5, function.nparms - 1)) - sym.seq
    ELSE sym.seq + MIN(6, function.nparms)

access_variable(ctx, reg, sym, function) ==
    CASE sym.type = "SYM_GLOBAL_VAR" -> move_global_to_reg(ctx, reg, sym.name)
      [] sym.type \in {"SYM_LOCAL_VAR", "SYM_PARAMETER"} ->
            move_slot_to_reg(ctx, reg, get_slot(function, sym))
      [] OTHER -> [ctx EXCEPT !.err = TRUE]

write_variable(ctx, reg, sym, function) ==
    CASE sym.type = "SYM_GLOBAL_VAR" -> move_reg_to_global(ctx, reg, sym.name)
      [] sym.type \in {"SYM_LOCAL_VAR", "SYM_PARAMETER"} ->
            move_reg_to_slot(ctx, reg, get_slot(function, sym))
      [] OTHER -> [ctx EXCEPT !.err = TRUE]

\* The operand string of a variable: ".name" or "k(%rbp)"; NoOp after the
\* "Unsupported symbol type" exit.
write_variable_accessor(sym, function) ==
    CASE sym.type = "SYM_GLOBAL_VAR" -> Glob(sym.name)
      [] sym.type \in {"SYM_LOCAL_VAR", "SYM_PARAMETER"} ->
            Mem("%rbp", SlotOffset(get_slot(function, sym)))
      [] OTHER -> NoOp

\* param is 0-based as in the source
write_param_accessor(param) ==
    IF param < 6
    THEN Reg(PARAMETER_REGISTERS[param + 1])
    ELSE Mem("%rsp", (param - 6) * 8)

skip_jump_by_relation(ctx, relation, label) ==
    CASE relation = "=" -> puts(ctx, Ins("jne", label, NoOp))
      [] relation = ">" -> puts(ctx, Ins("jng", label, NoOp))
      [] relation = "<" -> puts(ctx, Ins("jnl", label, NoOp))
      [] OTHER -> ctx

(***************************************************************************)
(* The recursive lowering.  `target` is the compilation_target_t passed by *)
(* value; `ctx` carries what its pointers refer to.  target.returned is an *)
(* index into ctx.flags, 0 for the null pointer.  After a fatal            *)
(* diagnostic (exit(EXIT_FAILURE)) ctx.err is set and nothing more is      *)
(* lowered.                                                                *)
(***************************************************************************)
RECURSIVE generate_node(_, _)
RECURSIVE call_function_args(_, _, _, _, _)
RECURSIVE generate_print_items(_, _, _, _)
RECURSIVE generate_children(_, _, _, _)

\* strncmp("%rax", target_destination, 4) == 0: the operand text begins with
\* "%rax"; of the operands the generator forms only "%rax" itself does.
DestIsRax(dest) == dest = Reg("%rax")

\* The argument loop of call_function, param counted from 0
call_function_args(target, func, argument_list, param, ctx) ==
    IF param >= func.nparms
    THEN ctx
    ELSE LET child_target ==
                 Target(argument_list.children[param + 1], target.function, 0,
                        write_param_accessor(param), target.surrounding_loop_label)
         IN call_function_args(target, func, argument_list, param + 1,
                               generate_node(child_target, ctx))

call_function(target, ctx) ==
    IF Len(target.node.children) # 2
    THEN [ctx EXCEPT !.err = TRUE]
    ELSE LET identifier == target.node.children[1]
             func == identifier.entry
             argument_list == target.node.children[2]
             args_provided == IF argument_list.type = "NONE"
                              THEN 0 ELSE Len(argument_list.children)
         IN IF args_provided # func.nparms
            THEN [ctx EXCEPT !.err = TRUE]
            ELSE LET required_stack_space == MAX(6, func.nparms) - 6
                     al == allocate_aligned_stack(required_stack_space, ctx)
                     c1 == call_function_args(target, func, argument_list, 0, al.ctx)
                     c2 == puts(c1, InsFor("call", <<"func", func.name>>, NoOp,
                                           target.node))
                 IN unalign_stack(al.ret, c2)

\* The operator instruction(s) of a binary EXPRESSION: switch (*op)
binary_operator(ctx, op, node) ==
    CASE op = "|" -> puts(ctx, InsFor("orq", Reg("%r10"), Reg("%rax"), node))
      [] op = "^" -> puts(ctx, InsFor("xorq", Reg("%r10"), Reg("%rax"), node))
      [] op = "&" -> puts(ctx, InsFor("andq", Reg("%r10"), Reg("%rax"), node))
      [] op = "+" -> puts(ctx, InsFor("addq", Reg("%r10"), Reg("%rax"), node))
      [] op = "-" -> puts(ctx, InsFor("subq", Reg("%r10"), Reg("%rax"), node))
      [] op = "*" -> puts(ctx, InsFor("imulq", Reg("%r10"), NoOp, node))
      [] op = "/" -> puts(puts(ctx, Ins("cqto", NoOp, NoOp)),
                          InsFor("idivq", Reg("%r10"), NoOp, node))
      [] OTHER -> ctx

\* A push that leaves the alignment counter alone: what C9 rules out
push_rax_untracked(ctx) == puts(ctx, Ins("pushq", Reg("%rax"), NoOp))

\* *target.stack_alignment += 8; puts("\tpushq %rax");
push_rax(ctx) == emit(ctx, Ins("pushq", Reg("%rax"), NoOp), ctx.stack_alignment + 8)

\* *target.stack_alignment -= 8; puts("\tpopq %r10");
pop_r10(ctx) == emit(ctx, Ins("popq", Reg("%r10"), NoOp), ctx.stack_alignment - 8)

generate_expression(target, ctx) ==
    LET op == OpOf(target.node)
        n == Len(target.node.children)
    IN IF op = NULL
       THEN IF n = 2
            THEN LET c1 == call_function(target, ctx)
                 IN IF target.target_destination # Reg("%rax")
                    THEN puts(c1, Ins("movq", Reg("%rax"), target.target_destination))
                    ELSE c1
            ELSE generate_node([target EXCEPT !.node = target.node.children[1]], ctx)
       ELSE IF n = 1
            THEN LET c1 == generate_node(
                               [target EXCEPT !.node = target.node.children[1]], ctx)
                 IN CASE op = "-" -> puts(c1, Ins("negq", target.target_destination, NoOp))
                      [] op = "~" -> puts(c1, Ins("notq", target.target_destination, NoOp))
                      [] OTHER -> c1
            ELSE LET child_target ==
                         Target(target.node.children[2], target.function, 0,
                                Reg("%rax"), target.surrounding_loop_label)
                     c1 == push_rax(generate_node(child_target, ctx))
                     c2 == pop_r10(generate_node(
                               [child_target EXCEPT !.node = target.node.children[1]], c1))
                     c3 == binary_operator(c2, op, target.node)
                 IN IF ~DestIsRax(target.target_destination)
                    THEN puts(c3, Ins("movq", Reg("%rax"), target.target_destination))
                    ELSE c3

generate_conditional(target, ctx) ==
    LET relation == target.node
        child_target == Target(relation.children[1], target.function, 0,
                               Reg("%rax"), target.surrounding_loop_label)
        c1 == push_rax(generate_node(child_target, ctx))
        c2 == pop_r10(generate_node(
                  [child_target EXCEPT !.target_destination = Reg("%r11"),
                                       !.node = relation.children[2]], c1))
    IN puts(c2, Ins("cmp", Reg("%r11"), Reg("%r10")))

\* (*target.label_mangle_index)++
next_label_index(ctx) == [ctx EXCEPT !.label_mangle_index = @ + 1]

generate_if_statement(target, ctx) ==
    LET c0 == [ctx EXCEPT !.flags = Append(@, FALSE)]
        local_return == Len(c0.flags)
        child_target == Target(target.node.children[1], target.function,
                               local_return, NoOp, target.surrounding_loop_label)
        relation == target.node.children[1]
        c1 == generate_conditional(child_target, c0)
        has_else == Len(target.node.children) = 3
        first_skip_label ==
            make_label(IF has_else THEN "ELSE" ELSE "ENDIF", child_target, c1)
        c2 == skip_jump_by_relation(c1, OpOf(relation), first_skip_label)
        c3 == generate_node([child_target EXCEPT !.node = target.node.children[2]], c2)
        control_end_buffer == make_label("ENDIF", child_target, c3)
        c4 == IF has_else THEN puts(c3, Ins("jmp", control_end_buffer, NoOp)) ELSE c3
        c5 == label_here(c4, first_skip_label)
        c6 == IF has_else
              THEN label_here(
                       generate_node(
                           [child_target EXCEPT !.node = target.node.children[3]], c5),
                       control_end_buffer)
              ELSE c5
    IN next_label_index(c6)

generate_while_statement(target, ctx) ==
    LET c0 == [ctx EXCEPT !.flags = Append(@, FALSE)]
        local_return == Len(c0.flags)
        child_target == Target(target.node.children[1], target.function,
                               local_return, NoOp, target.surrounding_loop_label)
        check_label == make_label("WCHECK", child_target, c0)
        end_label == make_label("WEND", child_target, c0)
        c1 == label_here(c0, check_label)
        relation == target.node.children[1]
        body == target.node.children[2]
        c2 == generate_conditional(child_target, c1)
        c3 == skip_jump_by_relation(c2, OpOf(relation), end_label)
        c4 == generate_node(
                  [child_target EXCEPT !.surrounding_loop_label = check_label,
                                       !.node = body], c3)
        c5 == puts(c4, Ins("jmp", check_label, NoOp))
        c6 == label_here(c5, end_label)
    IN next_label_index(c6)

generate_assignment(target, ctx) ==
    LET var == target.node.children[1]
        value == target.node.children[2]
        child_target == Target(value, target.function, target.returned, NoOp,
                               target.surrounding_loop_label)
    IN IF target.node.type = "ASSIGNMENT_STATEMENT"
       THEN LET variable_accessor == write_variable_accessor(var.entry, target.function)
                c1 == generate_node(
                          [child_target EXCEPT !.target_destination = Reg("%rax")],
                          IF variable_accessor = NoOp
                          THEN [ctx EXCEPT !.err = TRUE] ELSE ctx)
            IN puts(c1, Ins("movq", Reg("%rax"), variable_accessor))
       ELSE LET c1 == generate_node(
                          [child_target EXCEPT !.target_destination = Reg("%r10")], ctx)
                c2 == access_variable(c1, Reg("%rax"), var.entry, target.function)
                c3 == CASE target.node.type = "ADD_STATEMENT" ->
                             puts(c2, Ins("addq", Reg("%r10"), Reg("%rax")))
                        [] target.node.type = "SUBTRACT_STATEMENT" ->
                             puts(c2, Ins("subq", Reg("%r10"), Reg("%rax")))
                        [] target.node.type = "DIVIDE_STATEMENT" ->
                             puts(puts(c2, Ins("cqto", NoOp, NoOp)),
                                  Ins("idivq", Reg("%r10"), NoOp))
                        [] target.node.type = "MULTIPLY_STATEMENT" ->
                             puts(c2, Ins("imulq", Reg("%r10"), NoOp))
                        [] OTHER -> c2
            IN write_variable(c3, Reg("%rax"), var.entry, target.function)

genereate_number_data(target, ctx) ==
    puts(ctx, Ins("movq", Imm(target.node.data[2]), target.target_destination))

\* alignment = align_stack(..); puts("\tcall printf"); unalign_stack(alignment, ..)
call_printf(ctx) ==
    LET al == align_stack(ctx)
    IN unalign_stack(al.ret, puts(al.ctx, Ins("call", <<"extern", "printf">>, NoOp)))

\* The item loop of generate_print_statement, i counted from 0
generate_print_items(target, child_target, i, ctx) ==
    IF i >= Len(target.node.children)
    THEN ctx
    ELSE LET item == target.node.children[i + 1]
             c1 == CASE item.type = "STRING_DATA" ->
                          puts(puts(ctx, Ins("movq", Sym(<<"strout">>), Reg("%rdi"))),
                               Ins("movq", Sym(<<"STR", item.data[2]>>), Reg("%rsi")))
                     [] item.type = "IDENTIFIER_DATA" ->
                          access_variable(
                              puts(ctx, Ins("movq", Sym(<<"intout">>), Reg("%rdi"))),
                              Reg("%rsi"), item.entry, target.function)
                     [] item.type = "EXPRESSION" ->
                          puts(generate_node(
                                   [child_target EXCEPT !.node = item,
                                                        !.target_destination = Reg("%rsi")],
                                   ctx),
                               Ins("movq", Sym(<<"intout">>), Reg("%rdi")))
                     [] OTHER -> ctx
         IN generate_print_items(target, child_target, i + 1, call_printf(c1))

generate_print_statement(target, ctx) ==
    LET child_target == Target(NoNode, target.function, target.returned, NoOp,
                               target.surrounding_loop_label)
        c1 == generate_print_items(target, child_target, 0, ctx)
    IN call_printf(puts(c1, Ins("movq", Sym(<<"newline">>), Reg("%rdi"))))

generate_return_statement(target, ctx) ==
    IF target.returned = 0
    THEN [ctx EXCEPT !.err = TRUE]
    ELSE LET c0 == [ctx EXCEPT !.flags[target.returned] = TRUE]
             child_target == Target(target.node.children[1], target.function,
                                    target.returned, Reg("%rax"),
                                    target.surrounding_loop_label)
             c1 == generate_node(child_target, c0)
         IN puts(puts(c1, Ins("leave", NoOp, NoOp)), Ins("ret", NoOp, NoOp))

\* The child loop at the end of generate_node, i counted from 0
generate_children(target, child_target, i, ctx) ==
    IF i >= Len(target.node.children)
    THEN ctx
    ELSE LET child == target.node.children[i + 1]
         IN IF child.type = "DECLARATION"
            THEN generate_children(target, child_target, i + 1, ctx)
            ELSE generate_children(
                     target, child_target, i + 1,
                     generate_node(
                         [child_target EXCEPT
                              !.node = child,
                              !.target_destination = target.target_destination],
                         ctx))

generate_node(target, ctx) ==
    LET type == target.node.type
    IN IF ctx.err THEN ctx
       ELSE CASE type = "IF_STATEMENT" -> generate_if_statement(target, ctx)
              [] type = "WHILE_STATEMENT" -> generate_while_statement(target, ctx)
              [] type = "NULL_STATEMENT" ->
                    IF target.surrounding_loop_label = NoOp
                    THEN [ctx EXCEPT !.err = TRUE]
                    ELSE puts(ctx, Ins("jmp", target.surrounding_loop_label, NoOp))
              [] type = "EXPRESSION" -> generate_expression(target, ctx)
              [] type = "IDENTIFIER_DATA" ->
                    access_variable(ctx, target.target_destination,
                                    target.node.entry, target.function)
              [] type = "NUMBER_DATA" -> genereate_number_data(target, ctx)
              [] type \in {"ASSIGNMENT_STATEMENT", "ADD_STATEMENT",
                           "SUBTRACT_STATEMENT", "DIVIDE_STATEMENT",
                           "MULTIPLY_STATEMENT"} -> generate_assignment(target, ctx)
              [] type = "PRINT_STATEMENT" -> generate_print_statement(target, ctx)
              [] type = "RETURN_STATEMENT" -> generate_return_statement(target, ctx)
              [] OTHER ->
                    IF target.returned # 0 /\ ctx.flags[target.returned]
                    THEN ctx
                    ELSE generate_children(
                             target,
                             Target(NoNode, target.function, target.returned, NoOp,
                                    target.surrounding_loop_label),
                             0, ctx)

(***************************************************************************)
(* generate_function: prologue, parameter spill, body, implicit return     *)
(***************************************************************************)
RECURSIVE spill_parameters_in_order(_, _, _)
\* A spill loop that stores the registers in declaration order, %rdi in slot 0
spill_parameters_in_order(ctx, paramc, param) ==
    IF param >= paramc
    THEN ctx
    ELSE spill_parameters_in_order(
             move_reg_to_slot(ctx, Reg(PARAMETER_REGISTERS[param + 1]), param),
             paramc, param + 1)

RECURSIVE spill_parameters(_, _, _)
\* for (int param = 0; param < paramc; param++)
\*     move_reg_to_slot(PARAMETER_REGISTERS[paramc - param - 1], param);
spill_parameters(ctx, paramc, param) ==
    IF param >= paramc
    THEN ctx
    ELSE spill_parameters(
             move_reg_to_slot(ctx, Reg(PARAMETER_REGISTERS[(paramc - param - 1) + 1]),
                              param),
             paramc, param + 1)

\* A generate_function that never writes the synthetic epilogue
implicit_return_never(ctx, returned) == ctx

\* if (!returned) { "movq $0, %rax"; "leave"; "ret" }
implicit_return(ctx, returned) ==
    IF ~returned
    THEN puts(puts(puts(puts(ctx, Ins("comment", NoOp, NoOp)),
                        Ins("movq", Imm(0), Reg("%rax"))),
                   Ins("leave", NoOp, NoOp)),
              Ins("ret", NoOp, NoOp))
    ELSE ctx

\* generate_function up to and including generate_node(target): `out` is the
\* stream written so far; the function's own counters start at 0
lower_body(function, out, hist) ==
    LET c0 == [out |-> out, hist |-> hist, stack_alignment |-> 0,
               label_mangle_index |-> 0, flags |-> <<FALSE>>, err |-> FALSE]
        c1 == puts(c0, Ins("globl", <<"func", function.name>>, NoOp))
        c2 == puts(c1, Ins("label", <<"func", function.name>>, NoOp))
        c3 == puts(c2, Ins("pushq", Reg("%rbp"), NoOp))
        c4 == puts(c3, Ins("movq", Reg("%rsp"), Reg("%rbp")))
        paramc == MIN(6, function.nparms)
        c5 == allocate_stack(paramc + get_variable_count(function), c4)
        c6 == spill_parameters(c5, paramc, 0)
        target == Target(function.node, function, 1, Reg("%rax"), NoOp)
    IN generate_node(target, c6)

generate_function(function, out, hist) ==
    LET c7 == lower_body(function, out, hist)
    IN implicit_return(c7, c7.flags[1])

(***************************************************************************)
(* generate_main: the trampoline.  Its pushq/popq lines are written with   *)
(* plain printf and leave its own stack_alignment untouched; only the      *)
(* excess-argument count is added before align_stack.                      *)
(***************************************************************************)
RECURSIVE pop_parameters(_, _, _)
\* for (int arg = 0; arg < MIN(6, first->nparms); arg++) popq PARAMETER_REGISTERS[arg]
pop_parameters(ctx, n, arg) ==
    IF arg >= n
    THEN ctx
    ELSE pop_parameters(puts(ctx, Ins("popq", Reg(PARAMETER_REGISTERS[arg + 1]), NoOp)),
                        n, arg + 1)

\* stack_alignment += (MAX(6, first->nparms) - 6) * 8
count_excess_arguments(ctx, first) ==
    [ctx EXCEPT !.stack_alignment = @ + (MAX(6, first.nparms) - 6) * 8]

\* align_stack; call _func_<first>; unalign_stack
call_entry(ctx, first) ==
    LET al == align_stack(ctx)
    IN unalign_stack(al.ret, puts(al.ctx, Ins("call", <<"func", first.name>>, NoOp)))

MainLabel(s) == <<"glb", s>>

generate_main(first, out, hist) ==
    LET c0 == [out |-> out, hist |-> hist, stack_alignment |-> 0,
               label_mangle_index |-> 0, flags |-> <<FALSE>>, err |-> FALSE]
        head == <<Ins("globl", MainLabel("main"), NoOp),
                  Ins("section", NoOp, NoOp),
                  Ins("label", MainLabel("main"), NoOp),
                  Ins("pushq", Reg("%rbp"), NoOp),
                  Ins("movq", Reg("%rsp"), Reg("%rbp")),
                  Ins("subq", Imm(1), Reg("%rdi")),
                  Ins("cmpq", Imm(first.nparms), Reg("%rdi")),
                  Ins("jne", MainLabel("ABORT"), NoOp),
                  Ins("cmpq", Imm(0), Reg("%rdi")),
                  Ins("jz", MainLabel("SKIP_ARGS"), NoOp),
                  Ins("movq", Reg("%rdi"), Reg("%rcx")),
                  Ins("addq", Imm(8 * first.nparms), Reg("%rsi")),
                  Ins("label", MainLabel("PARSE_ARGV"), NoOp),
                  Ins("pushq", Reg("%rcx"), NoOp),
                  Ins("pushq", Reg("%rsi"), NoOp),
                  Ins("movq", Mem("%rsi", 0), Reg("%rdi")),
                  Ins("movq", Imm(0), Reg("%rsi")),
                  Ins("movq", Imm(10), Reg("%rdx")),
                  Ins("call", <<"extern", "strtol">>, NoOp),
                  Ins("popq", Reg("%rsi"), NoOp),
                  Ins("popq", Reg("%rcx"), NoOp),
                  Ins("pushq", Reg("%rax"), NoOp),
                  Ins("subq", Imm(8), Reg("%rsi")),
                  Ins("loop", MainLabel("PARSE_ARGV"), NoOp)>>
        tail == <<Ins("jmp", MainLabel("END"), NoOp),
                  Ins("label", MainLabel("ABORT"), NoOp),
                  Ins("movq", Sym(<<"errout">>), Reg("%rdi")),
                  Ins("call", <<"extern", "puts">>, NoOp),
                  Ins("label", MainLabel("END"), NoOp),
                  Ins("movq", Reg("%rax"), Reg("%rdi")),
                  Ins("call", <<"extern", "exit">>, NoOp)>>
        PutAll[k \in 0..Len(head)] ==
            IF k = 0 THEN c0 ELSE puts(PutAll[k - 1], head[k])
        c1 == pop_parameters(PutAll[Len(head)], MIN(6, first.nparms), 0)
        c2 == count_excess_arguments(c1, first)
        c3 == puts(c2, Ins("label", MainLabel("SKIP_ARGS"), NoOp))
        c4 == call_entry(c3, first)
        PutTail[k \in 0..Len(tail)] ==
            IF k = 0 THEN c4 ELSE puts(PutTail[k - 1], tail[k])
    IN PutTail[Len(tail)]

(***************************************************************************)
(* generate_functions: the choice of the entry function                    *)
(***************************************************************************)
RECURSIVE strncmp(_, _, _)
\* 0 when the first n characters agree up to and including the terminating
\* NUL, nonzero otherwise; strings are sequences of characters, the NUL left
\* implicit after the last one.
strncmp(s1, s2, n) ==
    IF n = 0 THEN 0
    ELSE IF s1 = <<>> /\ s2 = <<>> THEN 0
    ELSE IF s1 = <<>> \/ s2 = <<>> THEN 1
    ELSE IF Head(s1) # Head(s2) THEN 1
    ELSE strncmp(Tail(s1), Tail(s2), n - 1)

\* A comparison of the first four characters only: "mainx" would count as main
is_main_prefix(sym) == strncmp(<<"m", "a", "i", "n">>, sym.name, 4) = 0

\* bool is_main = !strncmp("main", sym->name, 6)
is_main(sym) == strncmp(<<"m", "a", "i", "n">>, sym.name, 6) = 0

\* is_main || !main_lock && (*main == NULL || (*main)->seq > sym->seq)
selects(sym, cur_main, lock) ==
    is_main(sym) \/ (~lock /\ (cur_main.type = "NONE" \/ cur_main.seq > sym.seq))

(***************************************************************************)
(* Bounds of the model                                                     *)
(***************************************************************************)
\* largest parameter count of a function (callee, compiled function, entry)
MaxParms == 8
\* largest number of local variables of a compiled function
MaxVars == 2
\* largest number of backward jumps taken in one run of a function
MaxBack == 2
\* stack space below the entry %rsp, in 16-byte units
MaxStack == 12
\* largest number of functions in a globals table of the selection inputs
MaxFuncs == 3

(***************************************************************************)
(* Inputs: ASTs as the front end builds them                               *)
(***************************************************************************)
DigitChars == <<"0", "1", "2", "3", "4", "5", "6", "7", "8", "9">>

GlobalX == Symbol("SYM_GLOBAL_VAR", <<"x">>, 0, 0, 0, NoNode)
Param(seq) == Symbol("SYM_PARAMETER", <<"p", DigitChars[seq + 1]>>, seq, 0, 0, NoNode)
Local(seq) == Symbol("SYM_LOCAL_VAR", <<"v", DigitChars[seq + 1]>>, seq, 0, 0, NoNode)
\* a function of n parameters defined elsewhere in the program
Callee(n) == Symbol("SYM_FUNCTION", <<"g", DigitChars[n + 1]>>, 0, n, n, NoNode)

Num(v) == Node("NUMBER_DATA", <<"int", v>>, NoSym, <<>>)
Ident(sym) == Node("IDENTIFIER_DATA", NoData, sym, <<>>)
Str(k) == Node("STRING_DATA", <<"idx", k>>, NoSym, <<>>)
Wrap(a) == Node("EXPRESSION", NoData, NoSym, <<a>>)
Un(op, a) == Node("EXPRESSION", <<"op", op>>, NoSym, <<a>>)
Bin(op, a, b) == Node("EXPRESSION", <<"op", op>>, NoSym, <<a, b>>)
Call(func, args) ==
    Node("EXPRESSION", NoData, NoSym,
         <<Ident(func), Node("ARGUMENT_LIST", NoData, NoSym, args)>>)
Rel(op, a, b) == Node("RELATION", <<"op", op>>, NoSym, <<a, b>>)
Assign(type, sym, e) == Node(type, NoData, NoSym, <<Ident(sym), e>>)
PrintStmt(items) == Node("PRINT_STATEMENT", NoData, NoSym, items)
Return(e) == Node("RETURN_STATEMENT", NoData, NoSym, <<e>>)
If(rel, s) == Node("IF_STATEMENT", NoData, NoSym, <<rel, s>>)
IfElse(rel, s, t) == Node("IF_STATEMENT", NoData, NoSym, <<rel, s, t>>)
While(rel, s) == Node("WHILE_STATEMENT", NoData, NoSym, <<rel, s>>)
Continue == Node("NULL_STATEMENT", NoData, NoSym, <<>>)
Block(stmts) ==
    Node("BLOCK", NoData, NoSym,
         <<Node("DECLARATION", NoData, NoSym, <<>>),
           Node("STATEMENT_LIST", NoData, NoSym, stmts)>>)

\* g<n>(1, ..., n)
CallL(n) == Call(Callee(n), [p \in 1..n |-> Num(p)])
\* g<n>(1, ..., n-1, e)
CallWith(n, e) == Call(Callee(n), [p \in 1..n |-> IF p = n THEN e ELSE Num(p)])

BinOps == {"|", "^", "&", "+", "-", "*", "/"}
P0 == Ident(Param(0))

E1 == {Num(3), P0, Ident(GlobalX), Un("-", P0), Un("~", Num(3)), Wrap(Num(3))}
      \cup {Bin(op, P0, Num(3)) : op \in BinOps}
      \cup {Bin(op, Num(6), Num(3)) : op \in BinOps}
      \cup {CallL(n) : n \in 0..MaxParms}
Inner == {Num(3), Bin("*", Num(6), Num(3)), Bin("/", P0, Num(3)),
          CallL(0), CallL(7), CallL(MaxParms)}
E2 == {Bin("+", a, b) : a, b \in Inner}
      \cup {CallWith(n, e) : n \in {1, 4, 7}, e \in Inner}
Exprs == E1 \cup E2

PlainPrint == PrintStmt(<<Str(0), P0, Wrap(Num(1))>>)
S0 == {PlainPrint, Return(Num(1)), PrintStmt(<<CallL(7)>>),
       Assign("ASSIGNMENT_STATEMENT", Local(0), Num(2)),
       Block(<<Return(Num(1))>>), Block(<<Return(P0), PlainPrint>>)}
CondEq == Rel("=", P0, Num(0))
CondLt == Rel("<", P0, Ident(Local(0)))
CondGt == Rel(">", Ident(GlobalX), Num(0))
S1 == {If(CondEq, s) : s \in S0}
      \cup {IfElse(CondLt, s, t) : s, t \in S0}
      \cup {While(CondGt, s) : s \in S0 \cup {Continue, Block(<<PlainPrint, Continue>>)}}
S1n == {If(CondEq, PlainPrint), If(CondEq, Return(Num(1))),
        IfElse(CondLt, Return(Num(1)), Block(<<Return(Num(2))>>)),
        IfElse(CondLt, PlainPrint, PrintStmt(<<CallL(7)>>)),
        While(CondGt, PlainPrint), While(CondGt, PrintStmt(<<CallL(7)>>)),
        While(CondGt, Return(Num(1))), While(CondGt, Continue)}
S2 == {If(CondEq, s) : s \in S1n}
      \cup {While(CondGt, s) : s \in S1n}
      \cup {IfElse(CondLt, s, PlainPrint) : s \in S1n}
      \cup {IfElse(CondLt, PlainPrint, s) : s \in S1n}
Stmts == S0 \cup S1 \cup S2
Bodies ==
    {Block(<<s>>) : s \in Stmts \cup {Continue}}
    \cup {Block(<<s, t>>) : s \in S1n \cup S2, t \in {PlainPrint, Return(P0)}}
    \cup {Block(<<s, t>>) : s, t \in S1n}
    \cup {Block(<<Return(Num(1)), s>>) : s \in S1n}
ExprBodies ==
    {Block(<<PrintStmt(<<e>>)>>) : e \in Exprs}
    \cup {Block(<<Return(e)>>) : e \in Exprs}
    \cup {Block(<<Assign(t, GlobalX, e)>>) :
            t \in {"ADD_STATEMENT", "SUBTRACT_STATEMENT", "MULTIPLY_STATEMENT",
                   "DIVIDE_STATEMENT"},
            e \in {Num(3), P0, Bin("+", P0, Num(3)), CallL(7)}}
FrameBodies(nparms, nvars) ==
    {Block(<<Return(Ident(Param(p)))>>) : p \in 0..(nparms - 1)}
    \cup {Block(<<Assign("ASSIGNMENT_STATEMENT", Local(v), Num(5)),
                  Return(Ident(Local(v)))>>) : v \in 0..(nvars - 1)}
    \cup {Block(<<Return(Num(0))>>)}

\* symbol_t of a compiled function: locals holds parameters and variables
Function(name, seq, nparms, nvars, body) ==
    Symbol("SYM_FUNCTION", name, seq, nparms, nparms + nvars, body)

TestFunctions ==
    {Function(<<"f">>, 0, 1, nvars, b) : nvars \in 1..MIN(2, MaxVars), b \in Bodies}
    \cup {Function(<<"f">>, 0, 1, nvars, b) : nvars \in 0..1, b \in ExprBodies}
    \cup UNION {{Function(<<"f">>, 0, nparms, nvars, b) :
                    b \in FrameBodies(nparms, nvars)} :
                <<nparms, nvars>> \in (0..MaxParms) \X (0..MaxVars)}

\* Globals tables for the choice of the entry function: every order of every
\* set of up to MaxFuncs functions with pairwise different names and seqs,
\* with or without a global variable in front.
SelNames == {<<"m", "a", "i", "n">>, <<"m", "a", "i", "n", "x">>,
             <<"m", "a", "i">>, <<"f">>}
Trivial(name, seq) == Function(name, seq, 0, 0, Block(<<Return(Num(0))>>))
Injective(l) == \A a, b \in DOMAIN l : a # b => l[a] # l[b]
SelLists ==
    UNION {{[k \in 1..n |-> Trivial(names[k], seqs[k])] :
               names \in {l \in [1..n -> SelNames] : Injective(l)},
               seqs \in {l \in [1..n -> 0..(n - 1)] : Injective(l)}} :
           n \in 1..MaxFuncs}
GlobalLists ==
    {<<f>> : f \in TestFunctions}
    \cup SelLists
    \cup {<<GlobalX>> \o l : l \in SelLists}

(***************************************************************************)
(* The machine that runs the emitted text.  Values are tagged: a number,   *)
(* an incoming argument, a pointer into argv, a string, the address of a   *)
(* format string, the result of a call or of an operator on values that    *)
(* are not numbers, a saved frame pointer, the return address, or junk     *)
(* (memory never written, a register a callee was free to overwrite).      *)
(* 64-bit wrap-around is not modelled: the numbers of the inputs are small.*)
(***************************************************************************)
VNum(n) == <<"num", n>>
Junk == <<"junk">>
RetAddr == <<"retaddr">>
RegNames == {"%rax", "%r10", "%r11", "%rdi", "%rsi", "%rdx", "%rcx", "%r8", "%r9"}

\* %rsp on entry to a function: as left by a `call` from an aligned caller
EntryRsp == 16 * MaxStack + 8
CallerRbp == EntryRsp + 8 * (MaxParms + 2)
StackAddrs == {a \in 0..CallerRbp : a % 8 = 0}

RECURSIVE Bitwise(_, _, _)
Bitwise(op, a, b) ==
    IF a = 0 /\ b = 0 THEN 0
    ELSE LET x == a % 2
             y == b % 2
             bit == CASE op = "|" -> IF x + y > 0 THEN 1 ELSE 0
                      [] op = "&" -> x * y
                      [] op = "^" -> (x + y) % 2
         IN bit + 2 * Bitwise(op, a \div 2, b \div 2)

Abs(a) == IF a < 0 THEN -a ELSE a
\* idivq truncates toward zero
TDiv(a, b) == (IF (a < 0) = (b < 0) THEN 1 ELSE -1) * (Abs(a) \div Abs(b))

\* The result of a two-operand operator: left op right
Alu(op, l, r) ==
    IF l[1] = "num" /\ r[1] = "num"
    THEN CASE op = "+" -> VNum(l[2] + r[2])
           [] op = "-" -> VNum(l[2] - r[2])
           [] op = "*" -> VNum(l[2] * r[2])
           [] op = "/" /\ r[2] # 0 -> VNum(TDiv(l[2], r[2]))
           [] op \in {"|", "&", "^"} /\ l[2] >= 0 /\ r[2] >= 0 ->
                 VNum(Bitwise(op, l[2], r[2]))
           [] OTHER -> <<"bin", op, l, r>>
    ELSE IF l[1] = "ptr" /\ r[1] = "num" /\ op \in {"+", "-"}
    THEN <<"ptr", IF op = "+" THEN l[2] + r[2] ELSE l[2] - r[2]>>
    ELSE <<"bin", op, l, r>>

Unary(op, v) ==
    IF v[1] = "num"
    THEN IF op = "-" THEN VNum(-v[2]) ELSE VNum(-v[2] - 1)
    ELSE <<"un", op, v>>

\* %rdx after imulq: the high half of the 128-bit product
HighHalf(l, r) ==
    IF l[1] = "num" /\ r[1] = "num"
    THEN VNum(IF l[2] * r[2] < 0 THEN -1 ELSE 0)
    ELSE <<"hi", l, r>>

\* %rdx after cqto: the sign of %rax
SignExtend(v) ==
    IF v[1] = "num" THEN VNum(IF v[2] < 0 THEN -1 ELSE 0) ELSE <<"sext", v>>

\* %rdx after idivq: the remainder
Remainder(l, r) ==
    IF l[1] = "num" /\ r[1] = "num" /\ r[2] # 0
    THEN VNum(l[2] - r[2] * TDiv(l[2], r[2]))
    ELSE <<"rem", l, r>>

MnemonicOp(m) ==
    CASE m = "orq" -> "|" [] m = "xorq" -> "^" [] m = "andq" -> "&"
      [] m = "addq" -> "+" [] m = "subq" -> "-"

RECURSIVE StrToL(_, _)
DigitValue(c) == CHOOSE d \in 0..9 : DigitChars[d + 1] = c
\* strtol(s, 0, 10) of a string of decimal digits, acc the value read so far
StrToL(str, acc) ==
    IF str = <<>> \/ Head(str) \notin {DigitChars[d] : d \in 1..10}
    THEN acc
    ELSE StrToL(Tail(str), 10 * acc + DigitValue(Head(str)))

VARIABLES
    global_list,   \* generate_functions: the globals table, in tlhash order
    i,             \* generate_functions: the loop index
    main,          \* generate_program: symbol_t *main
    main_lock,     \* generate_functions: bool main_lock
    out,           \* the lines written to stdout from ".section .text" on
    hist,          \* stack_alignment after the step that wrote each line
    phase,         \* "functions", "emitted", "aborted", "run", "returned", "exited"
    unit,          \* the function being run ("MAIN": the trampoline)
    pc,            \* index in out of the next line to execute
    rsp, rbp,      \* stack and frame pointer, byte addresses
    regs,          \* the other registers
    mem,           \* the stack
    gmem,          \* the global variables (.bss)
    rflags,        \* the operands of the last cmp: <<destination, source>>
    back,          \* backward jumps taken so far
    argv           \* the argument strings main was started with

vars == <<global_list, i, main, main_lock, out, hist, phase, unit, pc, rsp, rbp,
          regs, mem, gmem, rflags, back, argv>>
gen_vars == <<global_list, i, main, main_lock, out, hist>>
machine_vars == <<unit, pc, rsp, rbp, regs, mem, gmem, rflags, back, argv>>

Init ==
    /\ global_list \in GlobalLists
    /\ i = 0
    /\ main = NoSym
    /\ main_lock = FALSE
    /\ out = <<>>
    /\ hist = <<>>
    /\ phase = "functions"
    /\ unit = NoSym
    /\ pc = 0
    /\ rsp = 0
    /\ rbp = 0
    /\ regs = [r \in RegNames |-> Junk]
    /\ mem = [a \in StackAddrs |-> Junk]
    /\ gmem = [g \in {GlobalX.name} |-> VNum(0)]
    /\ rflags = <<Junk, Junk>>
    /\ back = 0
    /\ argv = <<>>

(***************************************************************************)
(* generate_program                                                        *)
(***************************************************************************)
\* One iteration of the loop of generate_functions
generate_functions_step ==
    /\ phase = "functions"
    /\ i < Len(global_list)
    /\ LET sym == global_list[i + 1]
       IN IF sym.type # "SYM_FUNCTION"
          THEN /\ i' = i + 1
               /\ UNCHANGED <<main, main_lock, out, hist, phase>>
          ELSE LET sel == selects(sym, main, main_lock)
                   c == generate_function(sym, out, hist)
               IN /\ main' = IF sel THEN sym ELSE main
                  /\ main_lock' = IF sel THEN is_main(sym) ELSE main_lock
                  /\ IF c.err
                     THEN /\ phase' = "aborted"
                          /\ UNCHANGED <<i, out, hist>>
                     ELSE /\ i' = i + 1
                          /\ out' = c.out
                          /\ hist' = c.hist
                          /\ UNCHANGED phase
    /\ UNCHANGED <<global_list, machine_vars>>

\* generate_main(main), after the loop
generate_main_step ==
    /\ phase = "functions"
    /\ i = Len(global_list)
    /\ main.type # "NONE"
    /\ LET c == generate_main(main, out, hist)
       IN /\ out' = c.out
          /\ hist' = c.hist
    /\ phase' = "emitted"
    /\ UNCHANGED <<global_list, i, main, main_lock, machine_vars>>

(***************************************************************************)
(* Entering a unit of the emitted text                                     *)
(***************************************************************************)
LabelAt(lbl) == {k \in 1..Len(out) : out[k].op = "label" /\ out[k].a = lbl}

\* A caller that follows write_param_accessor calls function f: arguments
\* 0..5 in the parameter registers, argument p >= 6 at (p-6)*8(%rsp), %rsp a
\* multiple of 16; the call pushes the return address.
EnterFunction ==
    /\ phase = "emitted"
    /\ \E k \in 1..Len(global_list) :
          LET f == global_list[k]
          IN /\ f.type = "SYM_FUNCTION"
             /\ unit' = f
             /\ pc' \in LabelAt(<<"func", f.name>>)
             /\ regs' = [r \in RegNames |->
                           IF \E p \in 1..MIN(6, f.nparms) : PARAMETER_REGISTERS[p] = r
                           THEN <<"arg", (CHOOSE p \in 1..6 : PARAMETER_REGISTERS[p] = r) - 1>>
                           ELSE Junk]
             /\ mem' = [a \in StackAddrs |->
                          IF a = EntryRsp THEN RetAddr
                          ELSE IF a > EntryRsp /\ (a - EntryRsp) \div 8 <= f.nparms - 6
                          THEN <<"arg", 5 + (a - EntryRsp) \div 8>>
                          ELSE Junk]
    /\ rsp' = EntryRsp
    /\ rbp' = CallerRbp
    /\ phase' = "run"
    /\ UNCHANGED <<gen_vars, gmem, rflags, back, argv>>

\* The argument string number k of a run of main: the decimal text of 10 + k
ArgString(k) == <<DigitChars[(k \div 10) + 2], DigitChars[(k % 10) + 1]>>
MainUnit == Symbol("MAIN", <<"m", "a", "i", "n">>, 0, 0, 0, NoNode)

\* The C runtime calls main(argc, argv) with the right or a wrong number of
\* arguments for the entry function.
EnterMain ==
    /\ phase = "emitted"
    /\ \E argc \in {main.nparms + 1, main.nparms + 2} :
          /\ argv' = [k \in 1..argc |-> IF k = 1 THEN <<"a">> ELSE ArgString(k - 1)]
          /\ regs' = [r \in RegNames |->
                        CASE r = "%rdi" -> VNum(argc)
                          [] r = "%rsi" -> <<"ptr", 0>>
                          [] OTHER -> Junk]
    /\ unit' = MainUnit
    /\ pc' \in LabelAt(MainLabel("main"))
    /\ mem' = [a \in StackAddrs |-> IF a = EntryRsp THEN RetAddr ELSE Junk]
    /\ rsp' = EntryRsp
    /\ rbp' = CallerRbp
    /\ phase' = "run"
    /\ UNCHANGED <<gen_vars, gmem, rflags, back>>

(***************************************************************************)
(* Executing one line                                                      *)
(***************************************************************************)
Running == phase = "run" /\ pc \in 1..Len(out)
cur == out[pc]

\* The address a memory operand names
Address(o) == IF o[2] = "%rbp" THEN rbp + o[3] ELSE rsp + o[3]
\* argv[k] is at byte offset 8k from argv
ArgvAt(ptr, off) == <<"str", argv[(ptr[2] + off) \div 8 + 1]>>

Readable(o) ==
    CASE o[1] = "mem" /\ o[2] \in {"%rbp", "%rsp"} -> Address(o) \in StackAddrs
      [] o[1] = "mem" -> /\ regs[o[2]][1] = "ptr"
                         /\ (regs[o[2]][2] + o[3]) \div 8 + 1 \in DOMAIN argv
      [] o[1] = "glob" -> o[2] \in DOMAIN gmem
      [] OTHER -> TRUE

Read(o) ==
    CASE o[1] = "reg" -> regs[o[2]]
      [] o[1] = "imm" -> VNum(o[2])
      [] o[1] = "sym" -> o
      [] o[1] = "mem" /\ o[2] \in {"%rbp", "%rsp"} -> mem[Address(o)]
      [] o[1] = "mem" -> ArgvAt(regs[o[2]], o[3])
      [] o[1] = "glob" -> gmem[o[2]]

Store(o, v) ==
    CASE o[1] = "reg" -> /\ regs' = [regs EXCEPT ![o[2]] = v]
                         /\ UNCHANGED <<mem, gmem>>
      [] o[1] = "mem" -> /\ Address(o) \in StackAddrs
                         /\ mem' = [mem EXCEPT ![Address(o)] = v]
                         /\ UNCHANGED <<regs, gmem>>
      [] o[1] = "glob" -> /\ gmem' = [gmem EXCEPT ![o[2]] = v]
                          /\ UNCHANGED <<regs, mem>>

Step == /\ pc' = pc + 1
        /\ UNCHANGED <<gen_vars, phase, unit, argv>>

\* a label, a comment or a section directive
ExecLabel ==
    /\ Running
    /\ cur.op \in {"label", "comment", "section"}
    /\ Step
    /\ UNCHANGED <<rsp, rbp, regs, mem, gmem, rflags, back>>

\* movq %rsp, %rbp
ExecMovRspRbp ==
    /\ Running
    /\ cur.op = "movq" /\ cur.a = Reg("%rsp")
    /\ rbp' = rsp
    /\ Step
    /\ UNCHANGED <<rsp, regs, mem, gmem, rflags, back>>

ExecMov ==
    /\ Running
    /\ cur.op = "movq" /\ cur.a # Reg("%rsp")
    /\ Readable(cur.a)
    /\ Store(cur.b, Read(cur.a))
    /\ Step
    /\ UNCHANGED <<rsp, rbp, rflags, back>>

ExecPush ==
    /\ Running
    /\ cur.op = "pushq"
    /\ rsp - 8 \in StackAddrs
    /\ rsp' = rsp - 8
    /\ mem' = [mem EXCEPT ![rsp - 8] =
                  IF cur.a = Reg("%rbp") THEN <<"addr", rbp>> ELSE regs[cur.a[2]]]
    /\ Step
    /\ UNCHANGED <<rbp, regs, gmem, rflags, back>>

ExecPop ==
    /\ Running
    /\ cur.op = "popq"
    /\ rsp \in StackAddrs
    /\ regs' = [regs EXCEPT ![cur.a[2]] = mem[rsp]]
    /\ rsp' = rsp + 8
    /\ Step
    /\ UNCHANGED <<rbp, mem, gmem, rflags, back>>

\* subq $k, %rsp / addq $k, %rsp
ExecStackAdjust ==
    /\ Running
    /\ cur.op \in {"subq", "addq"} /\ cur.b = Reg("%rsp")
    /\ LET new == IF cur.op = "subq" THEN rsp - cur.a[2] ELSE rsp + cur.a[2]
       IN /\ new \in 0..CallerRbp
          /\ rsp' = new
    /\ Step
    /\ UNCHANGED <<rbp, regs, mem, gmem, rflags, back>>

\* orq, xorq, andq, addq, subq on a register other than %rsp
ExecArith ==
    /\ Running
    /\ cur.op \in {"orq", "xorq", "andq", "addq", "subq"} /\ cur.b # Reg("%rsp")
    /\ regs' = [regs EXCEPT ![cur.b[2]] = Alu(MnemonicOp(cur.op), @, Read(cur.a))]
    /\ Step
    /\ UNCHANGED <<rsp, rbp, mem, gmem, rflags, back>>

\* negq D / notq D
ExecUnary ==
    /\ Running
    /\ cur.op \in {"negq", "notq"}
    /\ Readable(cur.a)
    /\ Store(cur.a, Unary(IF cur.op = "negq" THEN "-" ELSE "~", Read(cur.a)))
    /\ Step
    /\ UNCHANGED <<rsp, rbp, rflags, back>>

\* imulq %r10: %rdx:%rax = %rax * %r10
ExecImul ==
    /\ Running
    /\ cur.op = "imulq"
    /\ regs' = [regs EXCEPT !["%rax"] = Alu("*", regs["%rax"], Read(cur.a)),
                            !["%rdx"] = HighHalf(regs["%rax"], Read(cur.a))]
    /\ Step
    /\ UNCHANGED <<rsp, rbp, mem, gmem, rflags, back>>

ExecCqto ==
    /\ Running
    /\ cur.op = "cqto"
    /\ regs' = [regs EXCEPT !["%rdx"] = SignExtend(regs["%rax"])]
    /\ Step
    /\ UNCHANGED <<rsp, rbp, mem, gmem, rflags, back>>

\* idivq %r10 after cqto; a zero divisor traps
ExecIdiv ==
    /\ Running
    /\ cur.op = "idivq"
    /\ Read(cur.a) # VNum(0)
    /\ regs' = [regs EXCEPT !["%rax"] = Alu("/", regs["%rax"], Read(cur.a)),
                            !["%rdx"] = Remainder(regs["%rax"], Read(cur.a))]
    /\ Step
    /\ UNCHANGED <<rsp, rbp, mem, gmem, rflags, back>>

\* cmp S, D sets the flags from D - S
ExecCmp ==
    /\ Running
    /\ cur.op \in {"cmp", "cmpq"}
    /\ rflags' = <<Read(cur.b), Read(cur.a)>>
    /\ Step
    /\ UNCHANGED <<rsp, rbp, regs, mem, gmem, back>>

\* Whether a conditional jump may be taken (TRUE) or not taken (FALSE): both
\* when the compared values are not known numbers.
Outcomes(op) ==
    LET d == rflags[1]
        s == rflags[2]
    IN IF d[1] = "num" /\ s[1] = "num"
       THEN {CASE op \in {"jne"} -> d[2] # s[2]
               [] op = "jz" -> d[2] = s[2]
               [] op = "jng" -> d[2] <= s[2]
               [] op = "jnl" -> d[2] >= s[2]}
       ELSE BOOLEAN

\* Going to line k; a jump backwards counts against MaxBack
Goto(k) ==
    /\ pc' = k
    /\ IF k <= pc
       THEN back < MaxBack /\ back' = back + 1
       ELSE back' = back
    /\ UNCHANGED <<gen_vars, phase, unit, argv>>

ExecJcc ==
    /\ Running
    /\ cur.op \in {"jne", "jz", "jng", "jnl"}
    /\ \E taken \in Outcomes(cur.op) :
          IF taken
          THEN \E k \in LabelAt(cur.a) : Goto(k)
          ELSE Step /\ back' = back
    /\ UNCHANGED <<rsp, rbp, regs, mem, gmem, rflags>>

ExecJmp ==
    /\ Running
    /\ cur.op = "jmp"
    /\ \E k \in LabelAt(cur.a) : Goto(k)
    /\ UNCHANGED <<rsp, rbp, regs, mem, gmem, rflags>>

\* loop L: %rcx = %rcx - 1, jump while it is not zero
ExecLoop ==
    /\ Running
    /\ cur.op = "loop"
    /\ regs["%rcx"][1] = "num"
    /\ regs' = [regs EXCEPT !["%rcx"] = VNum(@[2] - 1)]
    /\ IF regs["%rcx"][2] - 1 # 0
       THEN \E k \in LabelAt(cur.a) :
               pc' = k /\ UNCHANGED <<gen_vars, phase, unit, argv>>
       ELSE Step
    /\ UNCHANGED <<rsp, rbp, mem, gmem, rflags, back>>

\* The registers after a call returned result: the callee is free to
\* overwrite (clobber) or to keep every caller-saved register.
AfterCall(result, clobber) ==
    [r \in RegNames |->
        IF r = "%rax" THEN result ELSE IF clobber THEN Junk ELSE regs[r]]

\* The arguments a callee of n parameters finds at the call
ArgumentsAt(n) ==
    [p \in 1..n |-> IF p <= 6 THEN regs[PARAMETER_REGISTERS[p]]
                    ELSE mem[rsp + 8 * (p - 7)]]

\* The called function's parameter count
CalleeParms(line) ==
    IF line.node.type = "NONE" THEN main.nparms
    ELSE line.node.children[1].entry.nparms

\* call _func_<name>: the callee runs and returns its value in %rax
ExecCallFunc ==
    /\ Running
    /\ cur.op = "call" /\ cur.a[1] = "func"
    /\ \A p \in 7..CalleeParms(cur) : rsp + 8 * (p - 7) \in StackAddrs
    /\ \E clobber \in BOOLEAN :
          regs' = AfterCall(<<"call", cur.a[2], ArgumentsAt(CalleeParms(cur))>>, clobber)
    /\ Step
    /\ UNCHANGED <<rsp, rbp, mem, gmem, rflags, back>>

ExecCallPrintf ==
    /\ Running
    /\ cur.op = "call" /\ cur.a = <<"extern", "printf">>
    /\ \E clobber \in BOOLEAN : regs' = AfterCall(Junk, clobber)
    /\ Step
    /\ UNCHANGED <<rsp, rbp, mem, gmem, rflags, back>>

\* strtol(%rdi, 0, 10)
ExecCallStrtol ==
    /\ Running
    /\ cur.op = "call" /\ cur.a = <<"extern", "strtol">>
    /\ regs["%rdi"][1] = "str"
    /\ \E clobber \in BOOLEAN :
          regs' = AfterCall(VNum(StrToL(regs["%rdi"][2], 0)), clobber)
    /\ Step
    /\ UNCHANGED <<rsp, rbp, mem, gmem, rflags, back>>

ExecCallPuts ==
    /\ Running
    /\ cur.op = "call" /\ cur.a = <<"extern", "puts">>
    /\ \E clobber \in BOOLEAN : regs' = AfterCall(Junk, clobber)
    /\ Step
    /\ UNCHANGED <<rsp, rbp, mem, gmem, rflags, back>>

\* exit does not return
ExecCallExit ==
    /\ Running
    /\ cur.op = "call" /\ cur.a = <<"extern", "exit">>
    /\ phase' = "exited"
    /\ UNCHANGED <<gen_vars, machine_vars>>

\* leave: movq %rbp, %rsp; popq %rbp
ExecLeave ==
    /\ Running
    /\ cur.op = "leave"
    /\ rsp' = rbp + 8
    /\ rbp' = IF mem[rbp][1] = "addr" THEN mem[rbp][2] ELSE 0
    /\ Step
    /\ UNCHANGED <<regs, mem, gmem, rflags, back>>

\* ret pops the return address and continues in the caller
ExecRet ==
    /\ Running
    /\ cur.op = "ret"
    /\ mem[rsp] = RetAddr
    /\ rsp' = rsp + 8
    /\ phase' = "returned"
    /\ UNCHANGED <<gen_vars, unit, pc, rbp, regs, mem, gmem, rflags, back, argv>>

Next ==
    \/ generate_functions_step
    \/ generate_main_step
    \/ EnterFunction
    \/ EnterMain
    \/ ExecLabel
    \/ ExecMovRspRbp
    \/ ExecMov
    \/ ExecPush
    \/ ExecPop
    \/ ExecStackAdjust
    \/ ExecArith
    \/ ExecUnary
    \/ ExecImul
    \/ ExecCqto
    \/ ExecIdiv
    \/ ExecCmp
    \/ ExecJcc
    \/ ExecJmp
    \/ ExecLoop
    \/ ExecCallFunc
    \/ ExecCallPrintf
    \/ ExecCallStrtol
    \/ ExecCallPuts
    \/ ExecCallExit
    \/ ExecLeave
    \/ ExecRet

Spec == Init /\ [][Next]_vars

(***************************************************************************)
(* What the properties below speak about                                   *)
(***************************************************************************)
InFunction == Running /\ unit.type = "SYM_FUNCTION"
InTrampoline == Running /\ unit.type = "MAIN"
Functions == {k \in 1..Len(global_list) : global_list[k].type = "SYM_FUNCTION"}

\* The lines of the text of function f: from its .globl line up to the line
\* before the next .globl
FuncStart(f) ==
    CHOOSE k \in 1..Len(out) : out[k].op = "globl" /\ out[k].a = <<"func", f.name>>
FuncEnd(f) ==
    CHOOSE k \in FuncStart(f)..Len(out) :
        /\ k = Len(out) \/ out[k + 1].op = "globl"
        /\ \A j \in (FuncStart(f) + 1)..k : out[j].op # "globl"
\* the first line after the prologue pushq %rbp; movq %rsp, %rbp
AfterPrologue(f) == FuncStart(f) + 4

\* The value an expression has in the running function: parameters have the
\* incoming arguments, other variables what memory holds, a call the result
\* of the callee applied to the values of its arguments.
RECURSIVE Ideal(_)
Ideal(node) ==
    CASE node.type = "NUMBER_DATA" -> VNum(node.data[2])
      [] node.type = "IDENTIFIER_DATA" ->
            IF node.entry.type = "SYM_PARAMETER"
            THEN <<"arg", node.entry.seq>>
            ELSE Read(write_variable_accessor(node.entry, unit))
      [] node.type = "EXPRESSION" /\ OpOf(node) = NULL /\ Len(node.children) = 2 ->
            <<"call", node.children[1].entry.name,
              [p \in 1..Len(node.children[2].children) |->
                  Ideal(node.children[2].children[p])]>>
      [] node.type = "EXPRESSION" /\ OpOf(node) = NULL /\ Len(node.children) # 2 ->
            Ideal(node.children[1])
      [] node.type = "EXPRESSION" /\ OpOf(node) # NULL /\ Len(node.children) = 1 ->
            Unary(OpOf(node), Ideal(node.children[1]))
      [] OTHER -> Alu(OpOf(node), Ideal(node.children[1]), Ideal(node.children[2]))

\* The bytes a line subtracts from %rsp
StackEffect(line) ==
    CASE line.op = "pushq" -> 8
      [] line.op = "popq" -> -8
      [] line.op = "subq" /\ line.b = Reg("%rsp") -> line.a[2]
      [] line.op = "addq" /\ line.b = Reg("%rsp") -> -line.a[2]
      [] OTHER -> 0

\* The value of argument p (from 0) of a run of main
Argument(p) == VNum(StrToL(argv[p + 2], 0))

(***************************************************************************)
(* C1                                                                      *)
(***************************************************************************)
\* C1: in every generated user function, on every execution path, %rsp is
\* congruent to 0 mod 16 at each `call printf` and each `call _func_<name>`.
C1_CallsAligned == (InFunction /\ cur.op = "call") => rsp % 16 = 0

(***************************************************************************)
(* C2                                                                      *)
(***************************************************************************)
\* C2: every label placed in the emitted text is placed exactly once: no
\* two label lines of the output carry the same label.
C2_LabelsPlacedOnce ==
    phase = "emitted" =>
        \A a, b \in {k \in 1..Len(out) : out[k].op = "label"} :
            out[a].a = out[b].a => a = b

(***************************************************************************)
(* C3                                                                      *)
(***************************************************************************)
\* C3: at each `call _func_<callee>` of a user function, parameter register
\* p holds the value of the p-th argument expression, for every
\* p < min(6, nparms).
C3_ArgumentRegisters ==
    (InFunction /\ cur.op = "call" /\ cur.a[1] = "func") =>
        LET args == cur.node.children[2].children
        IN \A p \in 1..MIN(6, Len(args)) :
              regs[PARAMETER_REGISTERS[p]] = Ideal(args[p])

(***************************************************************************)
(* C4                                                                      *)
(***************************************************************************)
\* C4: when the operator instruction of a binary EXPRESSION executes, %rax
\* holds the value of the left child and %r10 the value of the right child.
C4_OperatorOperands ==
    (InFunction /\ cur.node.type = "EXPRESSION" /\ cur.op # "call") =>
        /\ regs["%rax"] = Ideal(cur.node.children[1])
        /\ regs["%r10"] = Ideal(cur.node.children[2])

(***************************************************************************)
(* C5                                                                      *)
(***************************************************************************)
\* C5: in a callee with more than 6 parameters a read of parameter p >= 6
\* loads the value the caller stored at (p-6)*8(%rsp) before the call: a
\* function whose body is `return <parameter p>` returns argument p.
C5_StackParameterRead ==
    \A p \in 6..(MaxParms - 1) :
        (/\ phase = "returned"
         /\ unit.type = "SYM_FUNCTION"
         /\ unit.nparms > p
         /\ unit.node = Block(<<Return(Ident(Param(p)))>>))
        => regs["%rax"] = <<"arg", p>>

(***************************************************************************)
(* C6                                                                      *)
(***************************************************************************)
\* C6: for a function with n <= 6 parameters and m locals, get_slot gives
\* the n parameters and the m locals pairwise distinct slots inside the n+m
\* slots the prologue reserves, and once the prologue has run the slot of
\* parameter s holds the s-th incoming argument (and keeps holding it, the
\* body writing no parameter), so that a function whose body is
\* `return <parameter s>` returns argument s.
C6_FrameSlots ==
    (unit.type = "SYM_FUNCTION" /\ unit.nparms <= 6 /\ phase \in {"run", "returned"}) =>
        LET n == unit.nparms
            m == get_variable_count(unit)
            syms == {Param(s) : s \in 0..(n - 1)} \cup {Local(v) : v \in 0..(m - 1)}
            body == AfterPrologue(unit) + (IF n + m > 0 THEN 1 ELSE 0) + n
        IN /\ \A a, b \in syms : get_slot(unit, a) = get_slot(unit, b) => a = b
           /\ \A a \in syms : get_slot(unit, a) \in 0..(n + m - 1)
           /\ pc >= body =>
                 \A s \in 0..(n - 1) :
                     mem[EntryRsp - 8 + SlotOffset(get_slot(unit, Param(s)))]
                         = <<"arg", s>>
           /\ \A s \in 0..(n - 1) :
                 (phase = "returned" /\ unit.node = Block(<<Return(Ident(Param(s)))>>))
                 => regs["%rax"] = <<"arg", s>>

\* A function of 6 parameters and 2 locals has returned its last parameter
C6_Witness ==
    /\ phase = "returned"
    /\ unit.type = "SYM_FUNCTION"
    /\ unit.nparms = 6
    /\ get_variable_count(unit) = 2
    /\ unit.node = Block(<<Return(Ident(Param(5)))>>)
    /\ regs["%rax"] = <<"arg", 5>>

(***************************************************************************)
(* C7                                                                      *)
(***************************************************************************)
\* C7: control never falls off the end of a function's text: a run of the
\* function stays on the lines of that function and never reaches the next
\* .globl line, it can always take a next step unless the bound on backward
\* jumps stops it in a loop, a function that has returned did so through
\* `leave; ret`, and the text of a function whose lowering left the
\* function-level `returned` flag unset ends with
\* `movq $0, %rax; leave; ret`.
C7_NoFallOffEnd ==
    /\ (phase \in {"run", "returned"} /\ unit.type = "SYM_FUNCTION") =>
          /\ pc \in (FuncStart(unit) + 1)..FuncEnd(unit)
          /\ phase = "returned" => out[pc].op = "ret" /\ out[pc - 1].op = "leave"
          /\ phase = "run" =>
                \/ ENABLED Next
                \/ back = MaxBack /\ cur.op \in {"jmp", "jne", "jng", "jnl"}
    /\ phase = "emitted" =>
          \A k \in Functions :
              LET f == global_list[k]
                  e == FuncEnd(f)
              IN ~lower_body(f, <<>>, <<>>).flags[1] =>
                    /\ e - 2 > AfterPrologue(f) - 1
                    /\ out[e - 2] = Ins("movq", Imm(0), Reg("%rax"))
                    /\ out[e - 1] = Ins("leave", NoOp, NoOp)
                    /\ out[e] = Ins("ret", NoOp, NoOp)

\* A function with a RETURN_STATEMENT inside an if branch or a while body
\* only was run and returned through the synthetic epilogue
C7_Witness ==
    /\ phase = "returned"
    /\ unit.type = "SYM_FUNCTION"
    /\ pc = FuncEnd(unit)
    /\ out[pc - 3].op = "comment"
    /\ \E k \in FuncStart(unit)..(pc - 4) : out[k].op = "ret"

(***************************************************************************)
(* C8                                                                      *)
(***************************************************************************)
\* The entry function of a set of functions: the one named "main" if there
\* is one, otherwise the one with the smallest seq
ExpectedEntry(fs) ==
    IF \E f \in fs : f.name = <<"m", "a", "i", "n">>
    THEN CHOOSE f \in fs : f.name = <<"m", "a", "i", "n">>
    ELSE CHOOSE f \in fs : \A g \in fs : f.seq <= g.seq

\* C8: after every iteration of the loop of generate_functions, and so when
\* the loop ends, the selected entry function is the function named exactly
\* "main" among those iterated over if there is one, and otherwise the one
\* with the smallest seq; a selected "main" is therefore never replaced.
C8_EntrySelection ==
    phase # "aborted" =>
        LET fs == {global_list[k] : k \in {j \in Functions : j <= i}}
        IN IF fs = {} THEN main = NoSym ELSE main = ExpectedEntry(fs)

\* The loop has ended on a table of three functions in which "main" came
\* first and has the largest seq
C8_Witness ==
    /\ phase = "emitted"
    /\ Cardinality(Functions) = 3
    /\ global_list[Len(global_list) - 2].name = <<"m", "a", "i", "n">>
    /\ global_list[Len(global_list) - 2].seq = 2
    /\ main = global_list[Len(global_list) - 2]

(***************************************************************************)
(* C9                                                                      *)
(***************************************************************************)
\* C9: in the text of every function, after every line in emission order,
\* the alignment counter equals the net number of bytes the subq/addq on
\* %rsp, pushq and popq lines emitted since the prologue subtract from %rsp,
\* and the counter is never negative.
C9_CounterTracksStack ==
    phase = "emitted" =>
        \A f \in Functions :
            LET s == AfterPrologue(global_list[f]) - 1
                e == FuncEnd(global_list[f])
                net[k \in s..e] == IF k = s THEN 0 ELSE net[k - 1] + StackEffect(out[k])
            IN \A k \in s..e : hist[k] = net[k] /\ hist[k] >= 0

\* In one function a pushq %rax was counted on top of an odd number of
\* slots, and the padding of a 7-argument call was released again
C9_Witness ==
    /\ phase = "emitted"
    /\ \E k \in 1..Len(out) : out[k] = Ins("pushq", Reg("%rax"), NoOp) /\ hist[k] = 16
    /\ \E k \in 1..Len(out) :
          /\ out[k] = Ins("addq", Imm(8), Reg("%rsp"))
          /\ out[k - 1].op = "call"
          /\ out[k - 1].node.type = "EXPRESSION"
          /\ out[k - 1].node.children[1].entry.nparms = 7

(***************************************************************************)
(* C10                                                                     *)
(***************************************************************************)
\* C10: for an entry function with nparms > 6, when the trampoline executes
\* `call _func_<entry>` arguments 0..5 are in the parameter registers in
\* order and every excess argument p is at (p-6)*8(%rsp).
C10_TrampolineArguments ==
    (InTrampoline /\ cur.op = "call" /\ cur.a[1] = "func" /\ main.nparms > 6) =>
        /\ \A p \in 0..5 : regs[PARAMETER_REGISTERS[p + 1]] = Argument(p)
        /\ \A p \in 6..(main.nparms - 1) : mem[rsp + (p - 6) * 8] = Argument(p)

(***************************************************************************)
(* C11                                                                     *)
(***************************************************************************)
\* C11: in the main trampoline %rsp is congruent to 0 mod 16 at every
\* `call strtol` of every iteration of the PARSE_ARGV loop, at
\* `call _func_<entry>`, at `call puts` and at `call exit`.
C11_TrampolineCallsAligned == (InTrampoline /\ cur.op = "call") => rsp % 16 = 0

(***************************************************************************)
(* C12                                                                     *)
(***************************************************************************)
\* C12: for every IF_STATEMENT with an else branch the code of the else
\* branch is emitted between the placed first_skip (ELSE) label and the
\* placed ENDIF label, whatever the then branch contains.  Every else branch
\* of the inputs holds a statement that is lowered to at least one line, so
\* no ELSE label line is directly followed by an ENDIF label line.
C12_ElseBranchEmitted ==
    phase = "emitted" =>
        \A k \in 1..(Len(out) - 1) :
            (/\ out[k].op = "label"
             /\ out[k].a[1] = "lbl"
             /\ out[k].a[3] = "ELSE")
            => ~(/\ out[k + 1].op = "label"
                 /\ out[k + 1].a[1] = "lbl"
                 /\ out[k + 1].a[3] = "ENDIF")

(***************************************************************************)
(* C13                                                                     *)
(***************************************************************************)
\* The first line of the body of function f, after the prologue, the frame
\* allocation and the parameter spill
BodyStart(f) ==
    AfterPrologue(f)
    + (IF MIN(6, f.nparms) + get_variable_count(f) > 0 THEN 1 ELSE 0)
    + MIN(6, f.nparms)

\* A function with at least one parameter is running its body (which writes
\* no parameter)
InBody == InFunction /\ unit.nparms >= 1 /\ pc >= BodyStart(unit)

\* C13 as stated: the prologue stores parameter 0 at -8(%rbp), the parameter
\* slot closest to %rbp, get_slot addresses parameter 0 at -8(%rbp), and the
\* following register-passed parameters occupy decreasing addresses in
\* declaration order.
C13_ParameterZeroNearest ==
    InBody =>
        \A s \in 0..(MIN(6, unit.nparms) - 1) :
            /\ mem[EntryRsp - 8 - 8 * (s + 1)] = <<"arg", s>>
            /\ SlotOffset(get_slot(unit, Param(s))) = -8 * (s + 1)

\* C13 amended: with paramc = min(6, nparms), the prologue stores parameter
\* 0 (the value arriving in %rdi) at -8*paramc(%rbp), the parameter slot
\* farthest from %rbp, and the last register-passed parameter at -8(%rbp);
\* register-passed parameter s is stored, and addressed by get_slot, at
\* -8*(paramc - s)(%rbp): increasing addresses in declaration order.
C13_ParameterZeroFarthest ==
    InBody =>
        \A s \in 0..(MIN(6, unit.nparms) - 1) :
            /\ mem[EntryRsp - 8 - 8 * (MIN(6, unit.nparms) - s)] = <<"arg", s>>
            /\ SlotOffset(get_slot(unit, Param(s))) = -8 * (MIN(6, unit.nparms) - s)

\* The prologue of a function of 3 parameters has just run: parameter 0 is
\* in the lowest of the three slots, parameter 2 at -8(%rbp)
C13_Witness ==
    /\ InFunction
    /\ unit.nparms = 3
    /\ pc = BodyStart(unit)
    /\ out[pc - 1] = Ins("movq", Reg("%rdi"), Mem("%rbp", -24))
    /\ mem[rbp - 24] = <<"arg", 0>>
    /\ mem[rbp - 8] = <<"arg", 2>>

(***************************************************************************)
(* C14                                                                     *)
(***************************************************************************)
\* The bytes the lines of a text subtract from %rsp, all together
NetStackEffect(text) ==
    LET net[k \in 0..Len(text)] ==
            IF k = 0 THEN 0 ELSE net[k - 1] + StackEffect(text[k])
    IN net[Len(text)]

\* call_function on call node `node` of function f, entered with the counter
\* at A and nothing written yet
CallSite(node, f, A) ==
    call_function(Target(node, f, 0, Reg("%rax"), NoOp),
                  [out |-> <<>>, hist |-> <<>>, stack_alignment |-> A,
                   label_mangle_index |-> 0, flags |-> <<FALSE>>, err |-> FALSE])

\* C14: for every call site the lines call_function emits are stack-neutral:
\* their net %rsp adjustment is zero and the counter A has its entry value
\* when call_function returns, whatever the callee's parameter count and
\* whatever A (aligned or not) on entry.
C14_CallStackNeutral ==
    phase = "emitted" =>
        \A f \in Functions :
            \A k \in FuncStart(global_list[f])..FuncEnd(global_list[f]) :
                (out[k].op = "call" /\ out[k].node.type = "EXPRESSION") =>
                    \A A \in {hist[k - 1] + 8 * d : d \in 0..1} :
                        LET c == CallSite(out[k].node, global_list[f], A)
                        IN /\ NetStackEffect(c.out) = 0
                           /\ c.stack_alignment = A

====
